---- MODULE Spec2Model ----
(***************************************************************************)
(* Model of the PyPSA benchmark scripts:                                   *)
(*   - generate_network / build_pypsa_network  (python/benchmark.py)       *)
(*   - the benchmark loops, time_median and the CSV writer                 *)
(*   - the comparison script               (python/compare_benchmarks.py)  *)
(*                                                                         *)
(* Real numbers are kept as scaled integers:                               *)
(*   rng.random()  = raw / RngRes            with raw in 0..RngRes-1       *)
(*   reactance x   = X / (100 * RngRes)      X = 5*RngRes + 45*raw          *)
(*   load p        = P / RngRes              P = 50*RngRes + 450*raw        *)
(*   capacity g    = G / (10 * RngRes)       G = 11*total or 5*P+500*RngRes *)
(***************************************************************************)
EXTENDS Integers, Sequences, FiniteSets, TLC

VARIABLES
    pc,          \* position of the generate/build call
    calls,       \* number of generate_network invocations started
    n_buses,     \* argument n_buses
    seed,        \* argument seed
    rng,         \* state of the random generator the call draws from
    i,           \* loop variable of the running loop
    lines,       \* list of (from, to, x)
    loads,       \* dict bus -> p
    total_load,  \* accumulated load
    generators,  \* dict bus -> p_max
    net,         \* the pypsa.Network being assembled
    sampled,     \* history: buses whose "rng.random() > 0.3" test succeeded
    ref,         \* history: remembered output of an earlier invocation (at most one)
    bpc,         \* position of the benchmark script
    bi,          \* index into DC_SIZES / LOPF_SIZES
    clock,       \* time.perf_counter()
    n_runs,      \* runs of the current time_median call
    times,       \* the current time_median call's measurements (multiset)
    dc_results,  \* dict n -> median ms
    lopf_results,\* dict n -> median ms
    csv,         \* rows written to results/python_benchmark.csv
    cpc,         \* position of the comparison script
    julia_csv,   \* rows of results/julia_benchmark.csv
    python_csv,  \* rows of results/python_benchmark.csv as read by the comparison
    julia,       \* dict (module, n) -> time_ms
    python,      \* dict (module, n) -> time_ms
    ci,          \* row index while reading / size index while printing
    cmod,        \* index of the module being printed
    sizes,       \* sorted sizes of the module being printed
    out          \* table rows printed

genVars == <<pc, calls, n_buses, seed, rng, i, lines, loads, total_load, generators, net, sampled, ref>>
benchVars == <<bpc, bi, clock, n_runs, times, dc_results, lopf_results, csv>>
cmpVars == <<cpc, julia_csv, python_csv, julia, python, ci, cmod, sizes, out>>
vars == <<genVars, benchVars, cmpVars>>

(***************************************************************************)
(* Bounds of the model.                                                    *)
(***************************************************************************)
MaxBuses == 6
MaxSeed == 11
MaxCalls == 3
MaxClock == 26
MaxJuliaRows == 2
MaxPythonRows == 1

Max(a, b) == IF a >= b THEN a ELSE b
Min(a, b) == IF a <= b THEN a ELSE b
EmptyMap == <<>>
Put(m, k, v) == [x \in (DOMAIN m) \cup {k} |-> IF x = k THEN v ELSE m[x]]

(***************************************************************************)
(* np.random.default_rng(seed): a deterministic generator whose stream is  *)
(* a function of the seed alone.  The bit generator is abstracted to a     *)
(* full-period linear congruential generator on RngModulus states; each    *)
(* draw advances the state and yields its high bits.                       *)
(***************************************************************************)
RngModulus == 256
RngMult == 77
RngInc == 61
RngRes == 16
SeedMult == 37
SeedInc == 11

\* mutation: one process-wide generator that a call does not re-seed
default_rng_shared(s) == rng
\* rng = np.random.default_rng(seed)
default_rng(s) == (s * SeedMult + SeedInc) % RngModulus

RngNext(st) == (st * RngMult + RngInc) % RngModulus
\* raw output of a draw made in state st
RngRaw(st) == RngNext(st) \div (RngModulus \div RngRes)
\* rng.integers(lo, hi) for lo < hi: an integer in [lo, hi)
integers(st, lo, hi) == lo + (RngRaw(st) * (hi - lo)) \div RngRes
\* 0.05 + rng.random() * 0.45, in units of 1/(100*RngRes)
reactance(st) == 5 * RngRes + 45 * RngRaw(st)
\* rng.random() > 0.3
load_present(st) == 10 * RngRaw(st) > 3 * RngRes
\* 50.0 + rng.random() * 450.0, in units of 1/RngRes
load_value(st) == 50 * RngRes + 450 * RngRaw(st)

(***************************************************************************)
(* generate_network(n_buses, seed)                                         *)
(***************************************************************************)
EmptyNet == [buses |-> {}, lines |-> EmptyMap, generators |-> EmptyMap, loads |-> EmptyMap]

n_extra == Max(1, n_buses \div 3)

Call(n, s) ==
    /\ pc \in {"idle", "built"}
    /\ calls < MaxCalls
    /\ calls' = calls + 1
    /\ n_buses' = n
    /\ seed' = s
    /\ rng' = default_rng(s)
    /\ lines' = <<>>
    /\ i' = 1
    /\ loads' = EmptyMap
    /\ total_load' = 0
    /\ generators' = EmptyMap
    /\ net' = EmptyNet
    /\ sampled' = {}
    /\ pc' = "tree"
    /\ UNCHANGED <<ref, benchVars, cmpVars>>

\* the endpoints (i, i + 1) of the tree line of iteration k
\* mutation: the tree line of iteration k taken one bus too far
tree_edge_shifted(k) == <<k + 1, k + 2>>
tree_edge(k) == <<k, k + 1>>

\* for i in range(1, n_buses): lines.append((i, i + 1, x))
TreeStep ==
    /\ pc = "tree"
    /\ i < n_buses
    /\ lines' = Append(lines, tree_edge(i) \o <<reactance(rng)>>)
    /\ rng' = RngNext(rng)
    /\ i' = i + 1
    /\ UNCHANGED <<pc, calls, n_buses, seed, loads, total_load, generators, net, sampled, ref, benchVars, cmpVars>>

TreeDone ==
    /\ pc = "tree"
    /\ i >= n_buses
    /\ pc' = "extra"
    /\ i' = 0
    /\ UNCHANGED <<calls, n_buses, seed, rng, lines, loads, total_load, generators, net, sampled, ref, benchVars, cmpVars>>

\* one iteration of the extra-edges loop; rng.integers(1, n_buses) needs 1 < n_buses
ExtraEdge(st) ==
    LET u == integers(st, 1, n_buses)
        st1 == RngNext(st)
        v == integers(st1, u + 1, n_buses + 1)
        st2 == RngNext(st1)
    IN  <<u, v, reactance(st2)>>

ExtraStep ==
    /\ pc = "extra"
    /\ i < n_extra
    /\ 1 < n_buses
    /\ lines' = Append(lines, ExtraEdge(rng))
    /\ rng' = RngNext(RngNext(RngNext(rng)))
    /\ i' = i + 1
    /\ UNCHANGED <<pc, calls, n_buses, seed, loads, total_load, generators, net, sampled, ref, benchVars, cmpVars>>

\* rng.integers(1, n_buses) with n_buses <= 1: ValueError (low >= high)
ExtraRaise ==
    /\ pc = "extra"
    /\ i < n_extra
    /\ ~(1 < n_buses)
    /\ pc' = "raised"
    /\ UNCHANGED <<calls, n_buses, seed, rng, i, lines, loads, total_load, generators, net, sampled, ref, benchVars, cmpVars>>

ExtraDone ==
    /\ pc = "extra"
    /\ i >= n_extra
    /\ pc' = "loads"
    /\ i' = 2
    /\ UNCHANGED <<calls, n_buses, seed, rng, lines, loads, total_load, generators, net, sampled, ref, benchVars, cmpVars>>

\* for bus in range(2, n_buses + 1): if rng.random() > 0.3: ...
LoadStep ==
    /\ pc = "loads"
    /\ i <= n_buses
    /\ IF load_present(rng)
       THEN LET p == load_value(RngNext(rng))
            IN  /\ loads' = Put(loads, i, p)
                /\ total_load' = total_load + p
                /\ rng' = RngNext(RngNext(rng))
                /\ sampled' = sampled \cup {i}
       ELSE /\ rng' = RngNext(rng)
            /\ UNCHANGED <<loads, total_load, sampled>>
    /\ i' = i + 1
    /\ UNCHANGED <<pc, calls, n_buses, seed, lines, generators, net, ref, benchVars, cmpVars>>

\* mutation: the fallback load put on the slack bus
fallback_bus_slack == 2 - 1
fallback_bus == 2
fallback_load == 200 * RngRes
\* total_load = 200.0
\* mutation: the fallback forgets to set total_load
fallback_total_stale == total_load
fallback_total == fallback_load

\* if not loads: loads[2] = 200.0; total_load = 200.0
Fallback ==
    /\ pc = "loads"
    /\ i > n_buses
    /\ loads = EmptyMap
    /\ loads' = Put(loads, fallback_bus, fallback_load)
    /\ total_load' = fallback_total
    /\ pc' = "slack"
    /\ UNCHANGED <<calls, n_buses, seed, rng, i, lines, generators, net, sampled, ref, benchVars, cmpVars>>

LoadsDone ==
    /\ pc = "loads"
    /\ i > n_buses
    /\ loads # EmptyMap
    /\ pc' = "slack"
    /\ UNCHANGED <<calls, n_buses, seed, rng, i, lines, loads, total_load, generators, net, sampled, ref, benchVars, cmpVars>>

\* total_load * 1.1, in units of 1/(10*RngRes)
slack_capacity(total) == 11 * total
\* loads.get(bus, 0.0) * 0.5 + 50.0, in units of 1/(10*RngRes)
pq_capacity(bus) == 5 * (IF bus \in DOMAIN loads THEN loads[bus] ELSE 0) + 500 * RngRes
pq_first == 2
\* mutation: a generator at every 2nd bus
pq_step_two == 4 - 2
pq_step == 4

\* generators = {1: total_load * 1.1}
SlackGen ==
    /\ pc = "slack"
    /\ generators' = Put(EmptyMap, 1, slack_capacity(total_load))
    /\ i' = pq_first
    /\ pc' = "pq"
    /\ UNCHANGED <<calls, n_buses, seed, rng, lines, loads, total_load, net, sampled, ref, benchVars, cmpVars>>

\* for bus in range(2, n_buses + 1, 4): generators[bus] = ...
GenStep ==
    /\ pc = "pq"
    /\ i <= n_buses
    /\ generators' = Put(generators, i, pq_capacity(i))
    /\ i' = i + pq_step
    /\ UNCHANGED <<pc, calls, n_buses, seed, rng, lines, loads, total_load, net, sampled, ref, benchVars, cmpVars>>

Output == [call |-> calls, n |-> n_buses, seed |-> seed, lines |-> lines,
           generators |-> generators, loads |-> loads]

\* return n_buses, lines, generators, loads; the caller may remember the output
Return ==
    /\ pc = "pq"
    /\ i > n_buses
    /\ pc' = "returned"
    /\ \E keep \in BOOLEAN : ref' = IF keep THEN ref ELSE <<Output>>
    /\ UNCHANGED <<calls, n_buses, seed, rng, i, lines, loads, total_load, generators, net, sampled, benchVars, cmpVars>>

(***************************************************************************)
(* build_pypsa_network(n_buses, lines, generators, loads)                  *)
(* Component names f"Bus{bus}", f"L{idx}", f"G{bus}", f"Load{bus}" are     *)
(* kept as (prefix, number) pairs; n.add(kind, name, ...) stores one row   *)
(* per name in the table of that kind.                                     *)
(***************************************************************************)
BusName(bus) == <<"Bus", bus>>
\* mutation: lines named by their endpoints, as in the hand-built networks
LineNameByEnds(idx, f, t) == <<"L", f, t>>
LineName(idx, f, t) == <<"L", idx>>
GenName(bus) == <<"G", bus>>
LoadName(bus) == <<"Load", bus>>
control(bus) == IF bus = 1 THEN "Slack" ELSE "PQ"

\* for bus in range(1, n_buses + 1): n.add("Bus", f"Bus{bus}", v_nom=380.0)
AddBuses ==
    /\ pc = "returned"
    /\ net' = [net EXCEPT !.buses = {BusName(b) : b \in 1..n_buses}]
    /\ pc' = "buses_added"
    /\ UNCHANGED <<calls, n_buses, seed, rng, i, lines, loads, total_load, generators, sampled, ref, benchVars, cmpVars>>

\* for idx, (f, t, x) in enumerate(lines): n.add("Line", f"L{idx}", ...)
LineRow(k) == [bus0 |-> BusName(lines[k][1]), bus1 |-> BusName(lines[k][2]), x |-> lines[k][3]]
LineNameAt(k) == LineName(k - 1, lines[k][1], lines[k][2])
AddLines ==
    /\ pc = "buses_added"
    /\ net' = [net EXCEPT !.lines =
                 [nm \in {LineNameAt(k) : k \in 1..Len(lines)} |->
                    LineRow(CHOOSE k \in 1..Len(lines) : LineNameAt(k) = nm)]]
    /\ pc' = "lines_added"
    /\ UNCHANGED <<calls, n_buses, seed, rng, i, lines, loads, total_load, generators, sampled, ref, benchVars, cmpVars>>

\* for bus, p_max in generators.items(): n.add("Generator", f"G{bus}", ...)
AddGenerators ==
    /\ pc = "lines_added"
    /\ net' = [net EXCEPT !.generators =
                 [nm \in {GenName(b) : b \in DOMAIN generators} |->
                    LET b == CHOOSE b \in DOMAIN generators : GenName(b) = nm
                    IN  [bus |-> BusName(b), p_nom |-> generators[b], control |-> control(b)]]]
    /\ pc' = "gens_added"
    /\ UNCHANGED <<calls, n_buses, seed, rng, i, lines, loads, total_load, generators, sampled, ref, benchVars, cmpVars>>

\* for bus, p in loads.items(): n.add("Load", f"Load{bus}", ...); return n
AddLoads ==
    /\ pc = "gens_added"
    /\ net' = [net EXCEPT !.loads =
                 [nm \in {LoadName(b) : b \in DOMAIN loads} |->
                    LET b == CHOOSE b \in DOMAIN loads : LoadName(b) = nm
                    IN  [bus |-> BusName(b), p_set |-> loads[b]]]]
    /\ pc' = "built"
    /\ UNCHANGED <<calls, n_buses, seed, rng, i, lines, loads, total_load, generators, sampled, ref, benchVars, cmpVars>>

(***************************************************************************)
(* The benchmark script: the DC and LOPF loops, time_median, the CSV.      *)
(* time.perf_counter() is a clock of finite resolution: a timed run        *)
(* advances it by a duration in Durations ticks.  time_median sorts its    *)
(* measurements (statistics.median) or takes their minimum, so the list    *)
(* `times` is kept as a multiset: duration -> number of runs.              *)
(* Medians are kept doubled (the mean of two middle values stays whole).   *)
(***************************************************************************)
DC_SIZES == <<3, 10, 50, 100, 500, 1000, 2000>>
LOPF_SIZES == <<3, 10, 50, 100, 500>>
Durations == {0, 1}
NoTimes == [d \in Durations |-> 0]

\* n_runs = 50 if n <= 100 else (10 if n <= 500 else 3)
dc_n_runs(n) == IF n <= 100 THEN 50 ELSE (IF n <= 500 THEN 10 ELSE 3)
\* n_runs = 10 if n <= 50 else (5 if n <= 100 else 3)
lopf_n_runs(n) == IF n <= 50 THEN 10 ELSE (IF n <= 100 THEN 5 ELSE 3)

RECURSIVE CountIn(_, _)
\* number of measurements of ts with a duration in D
CountIn(ts, D) ==
    IF D = {} THEN 0
    ELSE LET d == CHOOSE d \in D : TRUE IN ts[d] + CountIn(ts, D \ {d})
\* len(times)
NumTimes(ts) == CountIn(ts, Durations)
\* sorted(times)[k - 1]
SortedAt(ts, k) ==
    CHOOSE d \in Durations :
        /\ CountIn(ts, {e \in Durations : e <= d}) >= k
        /\ CountIn(ts, {e \in Durations : e < d}) < k
\* mutation: the minimum stored in place of the median (2 * min(times))
min2(ts) == 2 * SortedAt(ts, 1)
\* 2 * statistics.median(times)
median2(ts) ==
    LET n == NumTimes(ts)
    IN  IF n % 2 = 1 THEN 2 * SortedAt(ts, (n \div 2) + 1)
        ELSE SortedAt(ts, n \div 2) + SortedAt(ts, (n \div 2) + 1)
\* med * 1000
to_ms(m) == m * 1000
\* generate_network(n, seed=42) raises for a size without a second bus
generate_raises(n) == n <= 1

BenchInit ==
    /\ bpc = "dc" /\ bi = 1 /\ clock = 0 /\ n_runs = 0 /\ times = NoTimes
    /\ dc_results = EmptyMap /\ lopf_results = EmptyMap /\ csv = <<>>

\* for n in DC_SIZES: generate_network, build_pypsa_network, n_runs = ...
DCBegin ==
    /\ bpc = "dc"
    /\ bi <= Len(DC_SIZES)
    /\ IF generate_raises(DC_SIZES[bi])
       THEN bpc' = "crashed" /\ UNCHANGED <<n_runs, times>>
       ELSE /\ n_runs' = dc_n_runs(DC_SIZES[bi])
            /\ times' = NoTimes
            /\ bpc' = "dc_time"
    /\ UNCHANGED <<bi, clock, dc_results, lopf_results, csv, genVars, cmpVars>>

\* time_median: t0 = perf_counter(); func(); times.append(perf_counter() - t0)
TimedRun(d) ==
    /\ bpc \in {"dc_time", "lopf_time"}
    /\ NumTimes(times) < n_runs
    /\ clock + d <= MaxClock
    /\ clock' = clock + d
    /\ times' = [times EXCEPT ![d] = @ + 1]
    /\ UNCHANGED <<bpc, bi, n_runs, dc_results, lopf_results, csv, genVars, cmpVars>>

\* med, mn = time_median(...); dc_results[n] = med * 1000
DCRecord ==
    /\ bpc = "dc_time"
    /\ NumTimes(times) = n_runs
    /\ dc_results' = Put(dc_results, DC_SIZES[bi], to_ms(median2(times)))
    /\ bi' = bi + 1
    /\ bpc' = "dc"
    /\ UNCHANGED <<clock, n_runs, times, lopf_results, csv, genVars, cmpVars>>

DCDone ==
    /\ bpc = "dc"
    /\ bi > Len(DC_SIZES)
    /\ bpc' = "lopf"
    /\ bi' = 1
    /\ UNCHANGED <<clock, n_runs, times, dc_results, lopf_results, csv, genVars, cmpVars>>

\* for n in LOPF_SIZES: generate_network, n_runs = ...
LOPFBegin ==
    /\ bpc = "lopf"
    /\ bi <= Len(LOPF_SIZES)
    /\ IF generate_raises(LOPF_SIZES[bi])
       THEN bpc' = "crashed" /\ UNCHANGED <<n_runs, times>>
       ELSE /\ n_runs' = lopf_n_runs(LOPF_SIZES[bi])
            /\ times' = NoTimes
            /\ bpc' = "lopf_time"
    /\ UNCHANGED <<bi, clock, dc_results, lopf_results, csv, genVars, cmpVars>>

\* med, mn = time_median(run_lopf, n_runs); lopf_results[n] = med * 1000
LOPFRecord ==
    /\ bpc = "lopf_time"
    /\ NumTimes(times) = n_runs
    /\ lopf_results' = Put(lopf_results, LOPF_SIZES[bi], to_ms(median2(times)))
    /\ bi' = bi + 1
    /\ bpc' = "lopf"
    /\ UNCHANGED <<clock, n_runs, times, dc_results, csv, genVars, cmpVars>>

LOPFDone ==
    /\ bpc = "lopf"
    /\ bi > Len(LOPF_SIZES)
    /\ bpc' = "write"
    /\ UNCHANGED <<bi, clock, n_runs, times, dc_results, lopf_results, csv, genVars, cmpVars>>

CsvHeader == <<"module", "n_buses", "time_ms">>
\* writer.writerow(["DC_PF", n, dc_results[n]]) for n in DC_SIZES
DCRows == [k \in 1..Len(DC_SIZES) |-> <<"DC_PF", DC_SIZES[k], dc_results[DC_SIZES[k]]>>]
\* writer.writerow(["LOPF", n, lopf_results[n]]) for n in LOPF_SIZES
LOPFRows == [k \in 1..Len(LOPF_SIZES) |-> <<"LOPF", LOPF_SIZES[k], lopf_results[LOPF_SIZES[k]]>>]

\* with open("results/python_benchmark.csv", "w") as f: header, DC rows, LOPF rows
WriteCSV ==
    /\ bpc = "write"
    /\ csv' = <<CsvHeader>> \o DCRows \o LOPFRows
    /\ bpc' = "done"
    /\ UNCHANGED <<bi, clock, n_runs, times, dc_results, lopf_results, genVars, cmpVars>>

BenchNext ==
    \/ DCBegin
    \/ \E d \in Durations : TimedRun(d)
    \/ DCRecord
    \/ DCDone
    \/ LOPFBegin
    \/ LOPFRecord
    \/ LOPFDone
    \/ WriteCSV

(***************************************************************************)
(* The comparison script.  A CSV row is (module, n_buses, time_ms) with    *)
(* the fields already converted by int() and float(); times are whole      *)
(* numbers of milliseconds.  A printed speedup is kept in tenths, as the   *)
(* format .1f shows it.                                                    *)
(***************************************************************************)
CsvModules == {"DC_PF", "LOPF"}
CsvSizes == {3, 10}
JuliaTimes == {0, 2}
PythonTimes == {0, 6}
JuliaRows == {<<m, n, t>> : m \in CsvModules, n \in CsvSizes, t \in JuliaTimes}
PythonRows == {<<m, n, t>> : m \in CsvModules, n \in CsvSizes, t \in PythonTimes}
SeqsUpTo(S, len) == UNION {[1..k -> S] : k \in 0..len}

\* read_csv: results[(module, n_buses)] = time_ms, a later row replacing an earlier one
read_csv(rows) ==
    [key \in {<<rows[k][1], rows[k][2]>> : k \in 1..Len(rows)} |->
        LET last == CHOOSE k \in 1..Len(rows) :
                        /\ <<rows[k][1], rows[k][2]>> = key
                        /\ \A k2 \in 1..Len(rows) : <<rows[k2][1], rows[k2][2]>> = key => k2 <= k
        IN  rows[last][3]]

RECURSIVE sorted(_)
\* sorted(S) for a set of integers
sorted(S) ==
    IF S = {} THEN <<>>
    ELSE LET lo == CHOOSE x \in S : \A y \in S : x <= y IN <<lo>> \o sorted(S \ {lo})

\* for module in ["DC_PF", "LOPF"]
CmpModuleList == <<"DC_PF", "LOPF">>
\* a float is true unless it is 0.0; a missing key gives None, which is false
truthy(results, key) == key \in DOMAIN results /\ results[key] # 0
\* speedup = p / j, shown with one decimal
speedup_tenths(p, j) == (20 * p + j) \div (2 * j)
\* "#" * min(40, int(speedup))
bar_length(p, j) == Min(40, p \div j)

CmpInit ==
    /\ cpc = "read_julia"
    /\ julia_csv \in SeqsUpTo(JuliaRows, MaxJuliaRows)
    /\ python_csv \in SeqsUpTo(PythonRows, MaxPythonRows)
    /\ julia = EmptyMap /\ python = EmptyMap /\ ci = 0 /\ cmod = 0 /\ sizes = <<>> /\ out = <<>>

\* julia = read_csv("results/julia_benchmark.csv")
ReadJulia ==
    /\ cpc = "read_julia"
    /\ julia' = read_csv(julia_csv)
    /\ cpc' = "read_python"
    /\ UNCHANGED <<julia_csv, python_csv, python, ci, cmod, sizes, out, genVars, benchVars>>

\* python = read_csv("results/python_benchmark.csv")
ReadPython ==
    /\ cpc = "read_python"
    /\ python' = read_csv(python_csv)
    /\ cpc' = "module"
    /\ cmod' = 1
    /\ UNCHANGED <<julia_csv, python_csv, julia, ci, sizes, out, genVars, benchVars>>

\* sizes = sorted({n for (m, n) in julia if m == module}); the table header is printed
ModuleBegin ==
    /\ cpc = "module"
    /\ cmod <= Len(CmpModuleList)
    /\ sizes' = sorted({key[2] : key \in {k \in DOMAIN julia : k[1] = CmpModuleList[cmod]}})
    /\ out' = Append(out, [kind |-> "header", module |-> CmpModuleList[cmod], cells |-> <<>>])
    /\ ci' = 1
    /\ cpc' = "rows"
    /\ UNCHANGED <<julia_csv, python_csv, julia, python, cmod, genVars, benchVars>>

\* for n in sizes: if j and p: ... elif j: ...
PrintRow ==
    /\ cpc = "rows"
    /\ ci <= Len(sizes)
    /\ LET m == CmpModuleList[cmod]
           key == <<m, sizes[ci]>>
       IN  IF truthy(julia, key) /\ truthy(python, key)
           THEN out' = Append(out, [kind |-> "both", module |-> m,
                                    cells |-> <<sizes[ci], julia[key], python[key],
                                                speedup_tenths(python[key], julia[key]),
                                                bar_length(python[key], julia[key])>>])
           ELSE IF truthy(julia, key)
           THEN out' = Append(out, [kind |-> "julia_only", module |-> m,
                                    cells |-> <<sizes[ci], julia[key]>>])
           ELSE out' = out
    /\ ci' = ci + 1
    /\ UNCHANGED <<cpc, julia_csv, python_csv, julia, python, cmod, sizes, genVars, benchVars>>

ModuleEnd ==
    /\ cpc = "rows"
    /\ ci > Len(sizes)
    /\ cmod' = cmod + 1
    /\ cpc' = "module"
    /\ UNCHANGED <<julia_csv, python_csv, julia, python, ci, sizes, out, genVars, benchVars>>

CmpDone ==
    /\ cpc = "module"
    /\ cmod > Len(CmpModuleList)
    /\ cpc' = "done"
    /\ UNCHANGED <<julia_csv, python_csv, julia, python, ci, cmod, sizes, out, genVars, benchVars>>

CmpNext ==
    \/ ReadJulia
    \/ ReadPython
    \/ ModuleBegin
    \/ PrintRow
    \/ ModuleEnd
    \/ CmpDone

(***************************************************************************)
(* Initial states.  Each specification runs one script; the variables of   *)
(* the other scripts stay at their parked values.                          *)
(***************************************************************************)
GenParked ==
    /\ pc = "off" /\ calls = 0 /\ n_buses = 0 /\ seed = 0 /\ rng = 0 /\ i = 0
    /\ lines = <<>> /\ loads = EmptyMap /\ total_load = 0 /\ generators = EmptyMap
    /\ net = EmptyNet /\ sampled = {} /\ ref = <<>>

GenInit ==
    /\ pc = "idle" /\ calls = 0 /\ n_buses = 0 /\ seed = 0 /\ rng = 0 /\ i = 0
    /\ lines = <<>> /\ loads = EmptyMap /\ total_load = 0 /\ generators = EmptyMap
    /\ net = EmptyNet /\ sampled = {} /\ ref = <<>>

BenchParked ==
    /\ bpc = "off" /\ bi = 0 /\ clock = 0 /\ n_runs = 0 /\ times = EmptyMap
    /\ dc_results = EmptyMap /\ lopf_results = EmptyMap /\ csv = <<>>

CmpParked ==
    /\ cpc = "off" /\ julia_csv = <<>> /\ python_csv = <<>> /\ julia = EmptyMap
    /\ python = EmptyMap /\ ci = 0 /\ cmod = 0 /\ sizes = <<>> /\ out = <<>>

Init == GenInit /\ BenchParked /\ CmpParked

Next ==
    \/ \E n \in 1..MaxBuses, s \in 0..MaxSeed : Call(n, s)
    \/ TreeStep
    \/ TreeDone
    \/ ExtraStep
    \/ ExtraRaise
    \/ ExtraDone
    \/ LoadStep
    \/ Fallback
    \/ LoadsDone
    \/ SlackGen
    \/ GenStep
    \/ Return
    \/ AddBuses
    \/ AddLines
    \/ AddGenerators
    \/ AddLoads

Spec == Init /\ [][Next]_vars

BenchSpecInit == GenParked /\ BenchInit /\ CmpParked
SpecBench == BenchSpecInit /\ [][BenchNext]_vars

CmpSpecInit == GenParked /\ BenchParked /\ CmpInit
SpecCompare == CmpSpecInit /\ [][CmpNext]_vars

(***************************************************************************)
(* Properties of generate_network and build_pypsa_network (under Spec).    *)
(***************************************************************************)
\* generate_network has returned; its output stays in place while the model is built
Returned == pc \in {"returned", "buses_added", "lines_added", "gens_added", "built"}

RECURSIVE Grow(_, _)
\* the buses reachable from the buses S over the undirected edges E
Grow(S, E) ==
    LET S2 == S \cup {e[2] : e \in {d \in E : d[1] \in S}}
                 \cup {e[1] : e \in {d \in E : d[2] \in S}}
    IN  IF S2 = S THEN S ELSE Grow(S2, E)
Edges(ls) == {<<ls[k][1], ls[k][2]>> : k \in 1..Len(ls)}
Connected(ls) == Grow({1}, Edges(ls)) = 1..n_buses

RECURSIVE SumOver(_, _)
SumOver(m, S) ==
    IF S = {} THEN 0
    ELSE LET b == CHOOSE b \in S : TRUE IN m[b] + SumOver(m, S \ {b})
SumLoads == SumOver(loads, DOMAIN loads)
LoadOf(b) == IF b \in DOMAIN loads THEN loads[b] ELSE 0

\* C1: generate_network(n, seed) returns without raising for every n >= 1, n = 1 included.
C1_NeverRaises == pc # "raised"

\* C2: for n >= 2 the first n-1 returned lines are exactly (i, i+1), i = 1..n-1, in order;
\* they form a spanning tree of the buses 1..n with n-1 edges, and the graph of all
\* returned lines is connected.
C2_SpanningTree ==
    (Returned /\ n_buses >= 2) =>
        /\ Len(lines) >= n_buses - 1
        /\ \A k \in 1..(n_buses - 1) : lines[k][1] = k /\ lines[k][2] = k + 1
        /\ Cardinality(Edges(SubSeq(lines, 1, n_buses - 1))) = n_buses - 1
        /\ Connected(SubSeq(lines, 1, n_buses - 1))
        /\ Connected(lines)
\* a returned meshed network: some extra line is a chord, not parallel to a tree line
C2_Witness ==
    /\ Returned /\ n_buses >= 4
    /\ \E k \in n_buses..Len(lines) : lines[k][2] > lines[k][1] + 1

\* C3: whenever generate_network returns, bus 1 is a generator and its capacity is
\* 1.1 x the sum of the demands of the returned load map (hence >= the total load),
\* with sampled loads and with the fallback load alike.
C3_SlackCapacity ==
    Returned =>
        /\ 1 \in DOMAIN generators
        /\ generators[1] = 11 * SumLoads
        /\ generators[1] >= 10 * SumLoads
\* a return after the fallback load was forced
C3_Witness == Returned /\ sampled = {} /\ SumLoads = 200 * RngRes /\ generators[1] = 2200 * RngRes

\* C4: the returned load map is never empty, its buses lie in 2..n and its demands
\* are positive; with no bus sampled it is exactly {2: 200} with total load 200,
\* otherwise it holds exactly the sampled buses, each with a demand in [50, 500].
C4_LoadMap ==
    Returned =>
        /\ loads # EmptyMap
        /\ DOMAIN loads \subseteq 2..n_buses
        /\ \A b \in DOMAIN loads : loads[b] > 0
        /\ IF sampled = {}
           THEN loads = Put(EmptyMap, 2, 200 * RngRes) /\ total_load = 200 * RngRes
           ELSE /\ DOMAIN loads = sampled
                /\ \A b \in sampled : 50 * RngRes <= loads[b] /\ loads[b] <= 500 * RngRes
\* a return where the sampling skipped every one of at least two candidate buses
C4_Witness == Returned /\ n_buses >= 3 /\ sampled = {} /\ DOMAIN loads = {2}

\* the extra-edges pass has ended, by running all its iterations or by raising
ExtraPassOver == pc \in {"raised", "loads", "slack", "pq"} \/ Returned
\* C5: for every n the extra-edges pass appends exactly max(1, n div 3) lines after
\* the n-1 tree lines, each (u, v, x) with 1 <= u < v <= n and x in [0.05, 0.5].
C5_ExtraEdges ==
    ExtraPassOver =>
        /\ Len(lines) = (n_buses - 1) + Max(1, n_buses \div 3)
        /\ \A k \in n_buses..Len(lines) :
              /\ 1 <= lines[k][1] /\ lines[k][1] < lines[k][2] /\ lines[k][2] <= n_buses
              /\ 5 * RngRes <= lines[k][3] /\ lines[k][3] <= 50 * RngRes

\* the remembered output is that of an earlier invocation with the current (n, seed)
SameArgsAsRef == ref # <<>> /\ ref[1].call < calls /\ ref[1].n = n_buses /\ ref[1].seed = seed
\* C6: an invocation returns the same lines, loads and generators as any earlier
\* invocation with the same (n, seed), whatever was invoked in between.
C6_Deterministic ==
    (Returned /\ SameArgsAsRef) =>
        /\ ref[1].lines = lines
        /\ ref[1].loads = loads
        /\ ref[1].generators = generators
\* the remembered invocation, another invocation, then the same arguments again
C6_Witness == Returned /\ SameArgsAsRef /\ ref[1].call + 1 < calls /\ n_buses >= 3

\* C7: whenever generate_network returns, the generator buses are exactly 1 and the
\* buses b in 2..n with b mod 4 = 2, and each generator at b # 1 has capacity
\* 0.5 x load(b) + 50, load(b) being 0 for a bus without load.
C7_GeneratorBuses ==
    Returned =>
        /\ DOMAIN generators = {1} \cup {b \in 2..n_buses : b % 4 = 2}
        /\ \A b \in DOMAIN generators \ {1} : generators[b] = 5 * LoadOf(b) + 500 * RngRes
\* generators at 1, 2 and 6, one of the two PQ buses loaded and the other not
C7_Witness ==
    /\ Returned /\ DOMAIN generators = {1, 2, 6}
    /\ \E b \in {2, 6} : b \in DOMAIN loads
    /\ \E b \in {2, 6} : b \notin DOMAIN loads

\* C10: the assembled model has exactly the buses Bus1..Busn, exactly one Slack
\* generator (the one at bus 1) and PQ for all others, one distinct line L<idx> per
\* entry of the line list (parallel edges kept apart), and every line endpoint,
\* generator bus and load bus is a registered bus.
C10_AssembledModel ==
    pc = "built" =>
        /\ net.buses = {<<"Bus", b>> : b \in 1..n_buses}
        /\ Cardinality(net.buses) = n_buses
        /\ DOMAIN net.lines = {<<"L", idx>> : idx \in 0..(Len(lines) - 1)}
        /\ Cardinality(DOMAIN net.lines) = Len(lines)
        /\ \A k \in 1..Len(lines) :
              /\ net.lines[<<"L", k - 1>>].bus0 = <<"Bus", lines[k][1]>>
              /\ net.lines[<<"L", k - 1>>].bus1 = <<"Bus", lines[k][2]>>
        /\ \A nm \in DOMAIN net.lines : net.lines[nm].bus0 \in net.buses /\ net.lines[nm].bus1 \in net.buses
        /\ Cardinality({nm \in DOMAIN net.generators : net.generators[nm].control = "Slack"}) = 1
        /\ \A nm \in DOMAIN net.generators :
              /\ net.generators[nm].bus \in net.buses
              /\ net.generators[nm].control = (IF net.generators[nm].bus = <<"Bus", 1>> THEN "Slack" ELSE "PQ")
        /\ Cardinality(DOMAIN net.generators) = Cardinality(DOMAIN generators)
        /\ \A nm \in DOMAIN net.loads : net.loads[nm].bus \in net.buses
        /\ Cardinality(DOMAIN net.loads) = Cardinality(DOMAIN loads)
\* an assembled model holding two parallel lines
C10_Witness ==
    /\ pc = "built"
    /\ \E k1, k2 \in 1..Len(lines) :
          k1 # k2 /\ lines[k1][1] = lines[k2][1] /\ lines[k1][2] = lines[k2][2]

(***************************************************************************)
(* Properties of the benchmark script (under SpecBench).                   *)
(***************************************************************************)
\* a median has just been stored and `times` still holds its measurements
JustRecorded == (bpc \in {"dc", "lopf"} /\ bi > 1) \/ (bpc = "lopf" /\ bi = 1) \/ bpc \in {"write", "done"}
LastRecordedSize ==
    IF bpc = "dc" THEN DC_SIZES[bi - 1]
    ELSE IF bpc = "lopf" /\ bi = 1 THEN DC_SIZES[Len(DC_SIZES)]
    ELSE IF bpc = "lopf" THEN LOPF_SIZES[bi - 1]
    ELSE LOPF_SIZES[Len(LOPF_SIZES)]
LastRecordedIsDC == bpc = "dc" \/ (bpc = "lopf" /\ bi = 1)
LastRecorded ==
    IF LastRecordedIsDC THEN dc_results[LastRecordedSize] ELSE lopf_results[LastRecordedSize]
\* m2 / 2 is a median of ts: at least half of the measurements lie on either side of it
IsMedian2(ts, m2) ==
    /\ 2 * CountIn(ts, {d \in Durations : 2 * d <= m2}) >= NumTimes(ts)
    /\ 2 * CountIn(ts, {d \in Durations : 2 * d >= m2}) >= NumTimes(ts)
CsvKeys == {<<csv[k][1], csv[k][2]>> : k \in 2..Len(csv)}

\* C8: the finished CSV is the header, then one DC_PF row per size of DC_SIZES, then
\* one LOPF row per size of LOPF_SIZES, no (module, size) pair repeated or missing,
\* and the time of a row is the median of that size's timed runs in milliseconds.
C8_BenchmarkCsv ==
    /\ JustRecorded =>
          /\ NumTimes(times) = (IF LastRecordedIsDC THEN dc_n_runs(LastRecordedSize)
                                ELSE lopf_n_runs(LastRecordedSize))
          /\ LastRecorded % 1000 = 0
          /\ IsMedian2(times, LastRecorded \div 1000)
    /\ bpc = "done" =>
          /\ Len(csv) = 1 + Len(DC_SIZES) + Len(LOPF_SIZES)
          /\ csv[1] = <<"module", "n_buses", "time_ms">>
          /\ \A k \in 1..Len(DC_SIZES) :
                csv[1 + k] = <<"DC_PF", DC_SIZES[k], dc_results[DC_SIZES[k]]>>
          /\ \A k \in 1..Len(LOPF_SIZES) :
                csv[1 + Len(DC_SIZES) + k] = <<"LOPF", LOPF_SIZES[k], lopf_results[LOPF_SIZES[k]]>>
          /\ Cardinality(CsvKeys) = Len(csv) - 1
          /\ DOMAIN dc_results = {DC_SIZES[k] : k \in 1..Len(DC_SIZES)}
          /\ DOMAIN lopf_results = {LOPF_SIZES[k] : k \in 1..Len(LOPF_SIZES)}
\* a finished CSV whose rows show a slow median, a median between two middle runs
\* and a fast median
C8_Witness ==
    /\ bpc = "done"
    /\ \E k \in 2..Len(csv) : csv[k][3] = 2000
    /\ \E k \in 2..Len(csv) : csv[k][3] = 1000
    /\ \E k \in 2..Len(csv) : csv[k][3] = 0

(***************************************************************************)
(* Properties of the comparison script (under SpecCompare).                *)
(***************************************************************************)
\* positions in out of the table rows printed for (m, n)
RowsFor(m, n) ==
    {k \in 1..Len(out) : out[k].kind # "header" /\ out[k].module = m /\ out[k].cells[1] = n}
TableRows == {k \in 1..Len(out) : out[k].kind # "header"}

\* C9: for each module of (DC_PF, LOPF) and every size with a row for it in the Julia
\* CSV the script prints exactly one table row, in ascending order of n, and when the
\* Python CSV has an entry for (module, n) too, the row shows both times and
\* speedup = python_time / julia_time.
C9_JoinedTable ==
    cpc = "done" =>
        /\ \A key \in DOMAIN julia : Cardinality(RowsFor(key[1], key[2])) = 1
        /\ \A k \in TableRows : <<out[k].module, out[k].cells[1]>> \in DOMAIN julia
        /\ \A k1, k2 \in TableRows :
              (k1 < k2 /\ out[k1].module = out[k2].module) => out[k1].cells[1] < out[k2].cells[1]
        /\ \A key \in (DOMAIN julia) \cap (DOMAIN python) :
              \A k \in RowsFor(key[1], key[2]) :
                 /\ out[k].kind = "both"
                 /\ out[k].cells[2] = julia[key]
                 /\ out[k].cells[3] = python[key]
                 /\ 2 * (10 * python[key] - out[k].cells[4] * julia[key]) <= julia[key]
                 /\ 2 * (out[k].cells[4] * julia[key] - 10 * python[key]) < julia[key]

====
